---- MODULE Spec2Model ----
(***************************************************************************)
(* The /analyze calculation chain of the MGCE Platform backend             *)
(* (src/backend/main.py): load analysis, system sizing, cost estimation,   *)
(* financial analysis, reliability assessment, recommendations.            *)
(*                                                                         *)
(* Python floats are modelled as exact decimal fixed-point integers:       *)
(*   kW inputs and the rounded load analysis ... 1/100 kW (two decimals)   *)
(*   design kW quantities ..................... 1/1000 kW                   *)
(*   battery_kwh .............................. 1/10 kWh                    *)
(*   fractions (renewable, coverage) .......... 1/1000                      *)
(*   backup_duration_hours .................... 1/10 h                      *)
(*   percentages of a FacilityInput ........... whole percent              *)
(*   money of a CostEstimate / FinancialAnalysis: cents                    *)
(* round(x, k) is round-half-to-even on the exact decimal value; the       *)
(* binary representation error of a float is not modelled, so a value      *)
(* that is an exact decimal tie may round the other way in the code.       *)
(* Load analysis, sizing and cost estimation are exact; the savings and    *)
(* the discounted sums of the financial analysis are carried in 1/1000 $.  *)
(*                                                                         *)
(* Six specifications, each following one part of the program while the    *)
(* variables of the other parts stay at their initial values:              *)
(*   Spec ........... one /analyze request at a time, validation included, *)
(*                    on sub-kilowatt facilities                           *)
(*   SizingSpec ..... analyze_load and size_system on large facilities     *)
(*   CommercialSpec . the whole chain on 100 kW facilities                 *)
(*   ServerSpec ..... load_data at import, then /analyze, /health and the  *)
(*                    table endpoints served on several connections        *)
(*   RetrySpec ...... DataCollectionUtils.safe_request (src/data_utils.py) *)
(*   RetryFairSpec .. the same, a started call being run to its end        *)
(***************************************************************************)
EXTENDS Integers, Sequences, FiniteSets, TLC

\* POST /analyze, one request at a time: the request body, the handler's
\* position and locals, the response, and the stages called so far
VARIABLES pc, body, facility, load_analysis, design, costs, financial,
          reliability, recommendations, response, trace

chain_vars == <<pc, body, facility, load_analysis, design, costs, financial,
                reliability, recommendations, response, trace>>

\* the server process: load_data's local dict and whether it printed its
\* warning, the global DATA, the requests being served (one record of
\* handler locals per connection) and one earlier /analyze exchange
VARIABLES boot, data, DATA, warned, requests, observed

server_vars == <<boot, data, DATA, warned, requests, observed>>

\* one call of DataCollectionUtils.safe_request: its arguments, the loop
\* variable, the outcome of every GET issued, every sleep, the return value
VARIABLES retry_pc, url, max_retries, attempt, outcomes, sleeps, result

retry_vars == <<retry_pc, url, max_retries, attempt, outcomes, sleeps, result>>

vars == <<chain_vars, server_vars, retry_vars>>

----------------------------------------------------------------------------
(* Arithmetic helpers                                                      *)

Max2(a, b) == IF a >= b THEN a ELSE b

Min2(a, b) == IF a <= b THEN a ELSE b

\* round-half-even of fl + rem/d, given 0 <= rem < d
RoundParts(fl, rem, d) ==
    IF 2 * rem < d THEN fl
    ELSE IF 2 * rem > d THEN fl + 1
    ELSE IF fl % 2 = 0 THEN fl ELSE fl + 1

\* Python round(): nearest integer to n/d (d > 0), ties to even
Round(n, d) == RoundParts(n \div d, n % d, d)

\* round(a * n / d) without forming a * n (needs d * n < 2^31, d > 0, n >= 0)
MulDivRound(a, n, d) ==
    RoundParts((a \div d) * n + ((a % d) * n) \div d, ((a % d) * n) % d, d)

\* round(a * 10^k / d) by long division (needs 10 * d < 2^31, d > 0)
RECURSIVE LongDiv(_, _, _, _)
LongDiv(q, r, d, k) ==
    IF k = 0 THEN RoundParts(q, r, d)
    ELSE LongDiv(q * 10 + (r * 10) \div d, (r * 10) % d, d, k - 1)

LongDivRound(a, d, k) == LongDiv(a \div d, a % d, d, k)

\* a division is evaluated (its guard let it through) with a zero denominator
DivByZero(evaluated, denominator) == evaluated /\ denominator = 0

----------------------------------------------------------------------------
(* Bounds of the model: the FacilityInput values a request may carry       *)

MaxPeakSteps == 4
PeakStep == 26
MaxAnnualSteps == 2
AnnualStep == 876

PeakDemands == {k * PeakStep : k \in 1..MaxPeakSteps}
AnnualConsumptions == {k * AnnualStep : k \in 1..MaxAnnualSteps}
CriticalPercents == {0, 10, 40, 100}
EssentialPercents == {0, 40, 100}
BackupDurations == {20, 40, 240}
FacilityTypes == {"commercial", "Hospital", "warehouse"}

\* the Field constraints with peak_demand_kw ge=0 instead of gt=0
validate_peak_ge_zero(b) ==
    /\ b.peak_demand_kw >= 0
    /\ b.annual_consumption_kwh > 0
    /\ b.critical_load_percent >= 0 /\ b.critical_load_percent <= 100
    /\ b.essential_load_percent >= 0 /\ b.essential_load_percent <= 100
    /\ b.backup_duration_hours > 0

\* the Field constraints of FacilityInput: gt=0, ge=0 / le=100
validate(b) ==
    /\ b.peak_demand_kw > 0
    /\ b.annual_consumption_kwh > 0
    /\ b.critical_load_percent >= 0 /\ b.critical_load_percent <= 100
    /\ b.essential_load_percent >= 0 /\ b.essential_load_percent <= 100
    /\ b.backup_duration_hours > 0

\* FacilityInput instances that pass the Field constraints
FacilityInput ==
    [facility_type : FacilityTypes,
     peak_demand_kw : PeakDemands,
     annual_consumption_kwh : AnnualConsumptions,
     critical_load_percent : CriticalPercents,
     essential_load_percent : EssentialPercents,
     backup_duration_hours : BackupDurations,
     include_solar : BOOLEAN,
     include_battery : BOOLEAN,
     include_generator : BOOLEAN]

\* request bodies with exactly one field outside its Field constraint
InvalidBodies ==
    LET base == {f \in FacilityInput :
                    /\ f.facility_type = "commercial"
                    /\ f.peak_demand_kw = PeakStep
                    /\ f.annual_consumption_kwh = AnnualStep
                    /\ f.critical_load_percent = 10
                    /\ f.essential_load_percent = 40
                    /\ f.backup_duration_hours = 40}
    IN UNION {{[f EXCEPT !.peak_demand_kw = 0],
               [f EXCEPT !.peak_demand_kw = -PeakStep],
               [f EXCEPT !.annual_consumption_kwh = 0],
               [f EXCEPT !.annual_consumption_kwh = -AnnualStep],
               [f EXCEPT !.critical_load_percent = -1],
               [f EXCEPT !.critical_load_percent = 101],
               [f EXCEPT !.essential_load_percent = -1],
               [f EXCEPT !.essential_load_percent = 101],
               [f EXCEPT !.backup_duration_hours = 0],
               [f EXCEPT !.backup_duration_hours = -10]} : f \in base}

\* the JSON bodies a client may POST to /analyze
RequestBodies == FacilityInput \cup InvalidBodies

----------------------------------------------------------------------------
(* LoadAnalyzer                                                            *)

hours_per_year == 8760

\* analyze_load with non_critical_load_kw = peak - critical, the essential
\* load not subtracted
load_unrounded_essential_kept(f) ==
    LET critical_load_kw == f.peak_demand_kw * f.critical_load_percent
        essential_load_kw == f.peak_demand_kw * f.essential_load_percent
    IN [kw_den |-> 10000,
        avg_den |-> hours_per_year,
        peak_demand_kw |-> f.peak_demand_kw,
        average_demand_kw |-> f.annual_consumption_kwh,
        critical_load_kw |-> critical_load_kw,
        essential_load_kw |-> essential_load_kw,
        non_critical_load_kw |-> f.peak_demand_kw * 100 - critical_load_kw,
        backup_load_kw |-> critical_load_kw + essential_load_kw,
        annual_consumption_kwh |-> f.annual_consumption_kwh]

\* The values of analyze_load before round(): critical, essential,
\* non-critical and backup load in 1/10000 kW, average demand in 1/8760 kW.
load_unrounded(f) ==
    LET critical_load_kw == f.peak_demand_kw * f.critical_load_percent
        essential_load_kw == f.peak_demand_kw * f.essential_load_percent
        non_critical_load_kw ==
            f.peak_demand_kw * 100 - critical_load_kw - essential_load_kw
    IN [kw_den |-> 10000,
        avg_den |-> hours_per_year,
        peak_demand_kw |-> f.peak_demand_kw,
        average_demand_kw |-> f.annual_consumption_kwh,
        critical_load_kw |-> critical_load_kw,
        essential_load_kw |-> essential_load_kw,
        non_critical_load_kw |-> non_critical_load_kw,
        backup_load_kw |-> critical_load_kw + essential_load_kw,
        annual_consumption_kwh |-> f.annual_consumption_kwh]

\* The dict analyze_load returns: every derived value rounded (1/100 kW)
analyze_load(f) ==
    LET u == load_unrounded(f)
    IN [kw_den |-> 100,
        avg_den |-> 100,
        peak_demand_kw |-> f.peak_demand_kw,
        average_demand_kw |-> Round(u.average_demand_kw * 100, u.avg_den),
        critical_load_kw |-> Round(u.critical_load_kw, 100),
        essential_load_kw |-> Round(u.essential_load_kw, 100),
        non_critical_load_kw |-> Round(u.non_critical_load_kw, 100),
        backup_load_kw |-> Round(u.backup_load_kw, 100),
        \* annual / (peak * 8760) to three decimals, the fraction reduced
        \* by 8 * 100
        load_factor |->
            LongDivRound(f.annual_consumption_kwh * 125,
                         f.peak_demand_kw * (hours_per_year \div 8), 2),
        annual_consumption_kwh |-> f.annual_consumption_kwh]

\* load_factor divides by peak_demand_kw * 8760
analyze_load_raises(f) == DivByZero(TRUE, f.peak_demand_kw * hours_per_year)

----------------------------------------------------------------------------
(* SystemSizer                                                             *)

\* 0.269, in thousandths
solar_capacity_factor == 269
\* 0.85, in hundredths
battery_round_trip_efficiency == 85

\* the solar array without the cap at 1.5 x peak demand
size_solar_pv_kw_uncapped(f, la) ==
    IF f.include_solar
    THEN 100 * Round(la.average_demand_kw * 13000,
                     la.avg_den * solar_capacity_factor)
    ELSE 0

\* The load_analysis values are in 1/la.kw_den kW (average: 1/la.avg_den kW)
size_solar_pv_kw(f, la) ==
    IF f.include_solar
    THEN Min2(100 * Round(la.average_demand_kw * 13000,
                          la.avg_den * solar_capacity_factor),
              f.peak_demand_kw * 15)
    ELSE 0

\* the battery sized for the whole requested backup duration
size_battery_kwh_uncapped_hours(f, la) ==
    IF f.include_battery
    THEN Round(la.backup_load_kw * f.backup_duration_hours * 100,
               la.kw_den * battery_round_trip_efficiency)
    ELSE 0

\* battery_hours = min(4, backup_duration_hours), hours in tenths
size_battery_kwh(f, la) ==
    IF f.include_battery
    THEN Round(la.backup_load_kw * Min2(40, f.backup_duration_hours) * 100,
               la.kw_den * battery_round_trip_efficiency)
    ELSE 0

size_battery_kw(f, la) ==
    IF f.include_battery
    THEN 100 * Round(la.backup_load_kw * 11, la.kw_den)
    ELSE 0

\* the generator sized whatever include_generator says
size_generator_kw_unconditional(f, la) ==
    100 * Round(la.backup_load_kw * 12, la.kw_den)

size_generator_kw(f, la) ==
    IF f.include_generator
    THEN 100 * Round(la.backup_load_kw * 12, la.kw_den)
    ELSE 0

\* the inverter sized for max(solar_pv_kw, battery_kw) only
size_inverter_kw_no_backup(la, solar_pv_kw, battery_kw) ==
    100 * Round(Max2(solar_pv_kw, battery_kw) * 11, 1000)

\* max(solar_pv_kw, battery_kw, backup_load_kw) * 1.1, one decimal
size_inverter_kw(la, solar_pv_kw, battery_kw) ==
    100 * Round(Max2(Max2(solar_pv_kw, battery_kw) * la.kw_den,
                     la.backup_load_kw * 1000) * 11,
                1000 * la.kw_den)

size_renewable_fraction(solar_pv_kw, total_generation_kw) ==
    IF total_generation_kw > 0
    THEN Round(solar_pv_kw * 1000, total_generation_kw)
    ELSE 0

\* the coverage without the min(1.0, ...) cap
size_critical_load_coverage_uncapped(la, battery_kw, generator_kw) ==
    IF la.critical_load_kw > 0
    THEN Round((battery_kw + generator_kw) * la.kw_den, la.critical_load_kw)
    ELSE 1000

\* the coverage with 0.0 as the fallback of the guard
size_critical_load_coverage_fallback_zero(la, battery_kw, generator_kw) ==
    IF la.critical_load_kw > 0
    THEN Min2(1000, Round((battery_kw + generator_kw) * la.kw_den,
                          la.critical_load_kw))
    ELSE 0

\* min(1.0, (battery_kw + generator_kw) / critical_load_kw), or 1.0
size_critical_load_coverage(la, battery_kw, generator_kw) ==
    IF la.critical_load_kw > 0
    THEN Min2(1000, Round((battery_kw + generator_kw) * la.kw_den,
                          la.critical_load_kw))
    ELSE 1000

size_system(f, la) ==
    LET solar_pv_kw == size_solar_pv_kw(f, la)
        battery_kw == size_battery_kw(f, la)
        generator_kw == size_generator_kw(f, la)
        total_generation_kw == solar_pv_kw + generator_kw
    IN [solar_pv_kw |-> solar_pv_kw,
        battery_kw |-> battery_kw,
        battery_kwh |-> size_battery_kwh(f, la),
        generator_kw |-> generator_kw,
        inverter_kw |-> size_inverter_kw(la, solar_pv_kw, battery_kw),
        total_generation_kw |-> 100 * Round(total_generation_kw, 100),
        renewable_fraction |->
            size_renewable_fraction(solar_pv_kw, total_generation_kw),
        critical_load_coverage |->
            size_critical_load_coverage(la, battery_kw, generator_kw)]

\* the two divisions of size_system, each behind its guard
size_system_raises(f, la) ==
    LET total_generation_kw ==
            size_solar_pv_kw(f, la) + size_generator_kw(f, la)
    IN \/ DivByZero(total_generation_kw > 0, total_generation_kw)
       \/ DivByZero(la.critical_load_kw > 0, la.critical_load_kw)

----------------------------------------------------------------------------
(* CostEstimator: money inside estimate_costs is exact, in 1/1000 $;       *)
(* the CostEstimate fields are rounded to cents.                           *)

\* default_costs, $ per kW or kWh
solar_pv_per_kw == 1551
battery_per_kwh == 485
generator_per_kw == 800
inverter_per_kw == 150
\* 0.15 and 0.20, in hundredths; 0.015, in thousandths
bos_percent == 15
installation_percent == 20
om_percent == 15

equipment_cost(d) ==
    d.solar_pv_kw * solar_pv_per_kw + d.battery_kwh * 100 * battery_per_kwh
    + d.generator_kw * generator_per_kw + d.inverter_kw * inverter_per_kw

\* cost per kW with the inverter counted in total_capacity
cost_per_kw_with_inverter(d) ==
    LET total_capacity == d.solar_pv_kw + d.generator_kw + d.inverter_kw
    IN IF total_capacity > 0
       THEN MulDivRound(equipment_cost(d),
                        100 + bos_percent + installation_percent,
                        total_capacity)
       ELSE 0

\* cost per kW with the battery power counted in total_capacity
cost_per_kw_with_battery(d) ==
    LET total_capacity == d.solar_pv_kw + d.generator_kw + d.battery_kw
    IN IF total_capacity > 0
       THEN MulDivRound(equipment_cost(d),
                        100 + bos_percent + installation_percent,
                        total_capacity)
       ELSE 0

\* total_capital_cost / total_capacity if total_capacity > 0 else 0
cost_per_kw(d) ==
    LET total_capacity == d.solar_pv_kw + d.generator_kw
    IN IF total_capacity > 0
       THEN MulDivRound(equipment_cost(d),
                        100 + bos_percent + installation_percent,
                        total_capacity)
       ELSE 0

estimate_costs(d) ==
    LET equipment == equipment_cost(d)
        total_percent == 100 + bos_percent + installation_percent
    IN [solar_pv_cost |-> Round(d.solar_pv_kw * solar_pv_per_kw, 10),
        battery_cost |-> d.battery_kwh * 10 * battery_per_kwh,
        generator_cost |-> Round(d.generator_kw * generator_per_kw, 10),
        inverter_cost |-> Round(d.inverter_kw * inverter_per_kw, 10),
        bos_cost |-> MulDivRound(equipment, bos_percent, 1000),
        installation_cost |->
            MulDivRound(equipment, installation_percent, 1000),
        total_capital_cost |-> MulDivRound(equipment, total_percent, 1000),
        annual_om_cost |->
            MulDivRound(equipment, total_percent * om_percent, 1000000),
        cost_per_kw |-> cost_per_kw(d)]

estimate_costs_raises(d) ==
    LET total_capacity == d.solar_pv_kw + d.generator_kw
    IN DivByZero(total_capacity > 0, total_capacity)

----------------------------------------------------------------------------
(* FinancialAnalyzer: money inside analyze_financials is carried in        *)
(* 1/1000 $ (each float product rounded to that), energy in 1/100000 kWh;  *)
(* the FinancialAnalysis fields are rounded as the code rounds them.       *)

\* default_params: 0.30, 0.06 and 0.02 in hundredths, 0.0945 in 1/10000
federal_itc_rate == 30
discount_rate == 6
electricity_rate == 945
electricity_escalation == 2
project_lifetime == 25
\* tou_rates: $/kWh in 1/100000 (export_credit: 1/10000), $/kW-month in
\* hundredths
summer_on_peak == 2554
summer_off_peak == 607
winter_on_peak == 746
winter_off_peak == 607
summer_demand == 1613
winter_demand == 1450
export_credit == 259
peak_days_per_month == 22
\* la_incentives, $
interconnection_fee_commercial == 75
permit_fee_min == 50
permit_fee_max == 500
\* 0.80, in hundredths
self_consumption_rate == 80

\* design.solar_pv_kw * 8760 * 0.269, in 1/100000 kWh
solar_production_kwh(d) ==
    d.solar_pv_kw * ((hours_per_year * solar_capacity_factor) \div 10)

calculate_arbitrage_savings(d) ==
    IF d.battery_kwh <= 0 THEN 0
    ELSE LET summer_spread == summer_on_peak - summer_off_peak
             winter_spread == winter_on_peak - winter_off_peak
             summer_cycles == peak_days_per_month * 6
             winter_cycles == peak_days_per_month * 6
         IN MulDivRound(d.battery_kwh * summer_spread
                            * battery_round_trip_efficiency,
                        summer_cycles, 100000)
            + MulDivRound(d.battery_kwh * winter_spread
                              * battery_round_trip_efficiency,
                          winter_cycles, 100000)

\* the peak shaving credited to the inverter instead of the battery
calculate_demand_charge_savings_of_inverter(d) ==
    IF d.inverter_kw <= 0 THEN 0
    ELSE LET peak_reduction_kw == d.inverter_kw * 8
         IN Round(peak_reduction_kw * summer_demand * 6, 1000)
            + Round(peak_reduction_kw * winter_demand * 6, 1000)

calculate_demand_charge_savings(d) ==
    IF d.battery_kw <= 0 THEN 0
    ELSE LET peak_reduction_kw == d.battery_kw * 8
         IN Round(peak_reduction_kw * summer_demand * 6, 1000)
            + Round(peak_reduction_kw * winter_demand * 6, 1000)

\* eligible_cost * 0.30
federal_itc(c) ==
    ((c.solar_pv_cost + c.battery_cost) * federal_itc_rate) \div 10

\* the net cost without the Louisiana interconnection and permit fees
net_cost_without_fees(c) ==
    c.total_capital_cost * 10 - federal_itc(c)

\* total_capital_cost - total_incentives + interconnection + permit
net_cost(c) ==
    c.total_capital_cost * 10 - federal_itc(c)
    + interconnection_fee_commercial * 1000
    + ((permit_fee_min + permit_fee_max) * 1000) \div 2

\* solar_production_kwh * self_consumption_rate * electricity_rate
self_consumption_savings(d) ==
    MulDivRound(MulDivRound(solar_production_kwh(d),
                            self_consumption_rate, 100),
                electricity_rate, 1000000)

\* export_kwh * export_credit
export_savings(d) ==
    LET export_kwh == MulDivRound(solar_production_kwh(d),
                                  100 - self_consumption_rate, 100)
    IN MulDivRound(export_kwh, export_credit, 1000000)

annual_savings(d) ==
    self_consumption_savings(d) + export_savings(d)
    + calculate_arbitrage_savings(d) + calculate_demand_charge_savings(d)

net_annual_savings(d, c) == annual_savings(d) - c.annual_om_cost * 10

\* the payback guarded by net_annual_savings != 0 instead of > 0
simple_payback_guard_nonzero(d, c) ==
    IF net_annual_savings(d, c) > 0
    THEN LongDivRound(net_cost(c), net_annual_savings(d, c), 1)
    ELSE IF net_annual_savings(d, c) < 0
    THEN -LongDivRound(net_cost(c), -net_annual_savings(d, c), 1)
    ELSE 9990

\* the payback with 0 as the value for "never pays back"
simple_payback_sentinel_zero(d, c) ==
    IF net_annual_savings(d, c) > 0
    THEN LongDivRound(net_cost(c), net_annual_savings(d, c), 1)
    ELSE 0

\* net_cost / net_annual_savings, or the 999 sentinel; in 1/10 year
simple_payback(d, c) ==
    IF net_annual_savings(d, c) > 0
    THEN LongDivRound(net_cost(c), net_annual_savings(d, c), 1)
    ELSE 9990

\* sum over year = 1..n of amount * (up/down)^year, amount in 1/1000 $
RECURSIVE DiscountedSum(_, _, _, _)
DiscountedSum(amount, up, down, n) ==
    IF n = 0 THEN 0
    ELSE LET term == MulDivRound(amount, up, down)
         IN term + DiscountedSum(term, up, down, n - 1)

\* solar_production_kwh * lifetime, in 1/100 kWh
total_energy(d) == MulDivRound(solar_production_kwh(d), project_lifetime, 1000)

\* npv_costs / total_energy if total_energy > 0 else 0; in 1/10000 $/kWh
lcoe(d, c) ==
    LET npv_costs == net_cost(c)
            + DiscountedSum(c.annual_om_cost * 10, 100, 100 + discount_rate,
                            project_lifetime)
    IN IF total_energy(d) > 0
       THEN LongDivRound(npv_costs, total_energy(d), 3)
       ELSE 0

npv(d, c) ==
    Round(DiscountedSum(net_annual_savings(d, c),
                        100 + electricity_escalation, 100 + discount_rate,
                        project_lifetime)
          - net_cost(c), 10)

\* net_annual_savings / net_cost if net_cost > 0 else 0; percent, 2 decimals
irr(d, c) ==
    IF net_cost(c) > 0
    THEN LongDivRound(net_annual_savings(d, c), net_cost(c), 4)
    ELSE 0

analyze_financials(f, d, c) ==
    [lcoe |-> lcoe(d, c),
     simple_payback_years |-> simple_payback(d, c),
     npv |-> npv(d, c),
     irr |-> irr(d, c),
     annual_savings |-> Round(annual_savings(d), 10),
     federal_itc |-> Round(federal_itc(c), 10),
     total_incentives |-> Round(federal_itc(c), 10),
     net_cost_after_incentives |-> Round(net_cost(c), 10)]

\* the three guarded divisions of analyze_financials
analyze_financials_raises(f, d, c) ==
    \/ DivByZero(net_annual_savings(d, c) > 0, net_annual_savings(d, c))
    \/ DivByZero(total_energy(d) > 0, total_energy(d))
    \/ DivByZero(net_cost(c) > 0, net_cost(c))

----------------------------------------------------------------------------
(* ReliabilityAnalyzer                                                     *)

\* la_metrics['saidi_with_med'] / 60 = 652.5 / 60 = 87 / 8 hours
expected_outage_num == 87
expected_outage_den == 8
\* hours of generator fuel
generator_fuel_hours == 72
default_interruption_cost == 25

\* str.lower() on the facility types of the model
Lower(str) == IF str = "Hospital" THEN "hospital" ELSE str

\* the keys of interruption_costs
interruption_cost_keys == {"commercial", "industrial", "residential", "hospital"}

\* interruption_costs.get(facility_type, 0): a missing key costs nothing
interruption_cost_default_zero(facility_type) ==
    CASE facility_type = "commercial" -> 25
      [] facility_type = "industrial" -> 15
      [] facility_type = "residential" -> 5
      [] facility_type = "hospital" -> 100
      [] OTHER -> 0

\* interruption_costs.get(facility_type, 25.0), $/kWh
interruption_cost(facility_type) ==
    CASE facility_type = "commercial" -> 25
      [] facility_type = "industrial" -> 15
      [] facility_type = "residential" -> 5
      [] facility_type = "hospital" -> 100
      [] OTHER -> default_interruption_cost

\* total_backup_hours = battery_hours + generator_hours as the fraction
\* num / den of hours
\* the backup hours of the battery alone, the generator fuel not counted
total_backup_hours_battery_only(d, la) ==
    IF la.backup_load_kw > 0
    THEN [num |-> d.battery_kwh * la.kw_den, den |-> 10 * la.backup_load_kw]
    ELSE [num |-> 0, den |-> 1]

\* battery_hours + generator_hours, as a fraction
total_backup_hours(d, la) ==
    LET generator_hours == IF d.generator_kw > 0 THEN generator_fuel_hours ELSE 0
    IN IF la.backup_load_kw > 0
       THEN [num |-> d.battery_kwh * la.kw_den
                     + generator_hours * 10 * la.backup_load_kw,
             den |-> 10 * la.backup_load_kw]
       ELSE [num |-> generator_hours, den |-> 1]

\* the improvement as the plain ratio, without the flat 95 and the cap
reliability_improvement_percent_ratio(total) ==
    LongDivRound(total.num * expected_outage_den,
                 total.den * expected_outage_num, 3)

\* round(min(reliability_improvement, 99), 1), in 1/10 percent
reliability_improvement_percent(total) ==
    IF total.num * expected_outage_den >= expected_outage_num * total.den
    THEN Min2(950, 990)
    ELSE Min2(LongDivRound(total.num * expected_outage_den,
                           total.den * expected_outage_num, 3),
              990)

\* critical_load_kw * expected_outage_hours * cost_per_kwh * coverage, cents
avoided_outage_cost(f, d, la) ==
    MulDivRound(la.critical_load_kw * interruption_cost(Lower(f.facility_type))
                    * expected_outage_num,
                d.critical_load_coverage,
                la.kw_den * expected_outage_den * 10)

assess_reliability(f, d, la) ==
    LET total == total_backup_hours(d, la)
    IN [backup_duration_hours |-> Round(total.num * 10, total.den),
        critical_load_coverage_percent |-> d.critical_load_coverage,
        expected_outage_hours_per_year |->
            Round(expected_outage_num * 10, expected_outage_den),
        avoided_outage_cost |-> avoided_outage_cost(f, d, la),
        reliability_improvement_percent |->
            reliability_improvement_percent(total)]

\* battery_kwh / backup_load_kw behind its guard; the other divisors are
\* the constants 60, 100 and expected_outage_hours
assess_reliability_raises(f, d, la) ==
    DivByZero(la.backup_load_kw > 0, la.backup_load_kw)

----------------------------------------------------------------------------
(* generate_recommendations: each string is modelled by its kind and the   *)
(* numbers formatted into it                                               *)

Recommendation(kind, a, b) == [kind |-> kind, a |-> a, b |-> b]

solar_recommendation(d) ==
    IF d.solar_pv_kw > 0
    THEN <<Recommendation("solar", Round(d.solar_pv_kw, 1000),
                          Round(d.renewable_fraction, 10))>>
    ELSE <<>>

\* f"{design.battery_kwh/design.battery_kw:.1f}": evaluated when
\* battery_kwh > 0
battery_recommendation(d) ==
    IF d.battery_kwh > 0
    THEN <<Recommendation("battery", Round(d.battery_kwh, 10),
                          Round(d.battery_kwh * 1000, d.battery_kw))>>
    ELSE <<>>

generator_recommendation(d) ==
    IF d.generator_kw > 0
    THEN <<Recommendation("generator", Round(d.generator_kw, 1000), 72)>>
    ELSE <<>>

payback_recommendation(fin) ==
    IF fin.simple_payback_years < 100
    THEN <<Recommendation("payback", fin.simple_payback_years,
                          Round(fin.federal_itc, 100))>>
    ELSE <<>>

npv_recommendation(fin) ==
    IF fin.npv > 0
    THEN <<Recommendation("npv", Round(fin.npv, 100), 25)>>
    ELSE <<>>

reliability_recommendation(rel) ==
    IF rel.reliability_improvement_percent > 900
    THEN <<Recommendation("reliability",
                          Round(rel.reliability_improvement_percent, 10), 0)>>
    ELSE <<>>

avoided_outage_recommendation(rel) ==
    IF rel.avoided_outage_cost > 1000000
    THEN <<Recommendation("avoided_outage",
                          Round(rel.avoided_outage_cost, 100), 0)>>
    ELSE <<>>

grid_forming_recommendation == <<Recommendation("grid_forming", 0, 0)>>

\* the list of an earlier request, kept at module level and appended to
recommendations_of_earlier_request ==
    IF observed # [none |-> TRUE] /\ observed.response.status = 200
    THEN observed.response.recommendations
    ELSE <<>>

\* recommendations = []
new_recommendations == <<>>

\* the Louisiana note appended first instead of last
generate_recommendations_note_first(f, d, c, fin, rel) ==
    new_recommendations \o grid_forming_recommendation
    \o solar_recommendation(d) \o battery_recommendation(d)
    \o generator_recommendation(d) \o payback_recommendation(fin)
    \o npv_recommendation(fin) \o reliability_recommendation(rel)
    \o avoided_outage_recommendation(rel)

generate_recommendations(f, d, c, fin, rel) ==
    new_recommendations
    \o solar_recommendation(d) \o battery_recommendation(d)
    \o generator_recommendation(d) \o payback_recommendation(fin)
    \o npv_recommendation(fin) \o reliability_recommendation(rel)
    \o avoided_outage_recommendation(rel) \o grid_forming_recommendation

\* the one division of generate_recommendations: battery_kwh / battery_kw,
\* evaluated whenever battery_kwh > 0
generate_recommendations_raises(d) ==
    DivByZero(d.battery_kwh > 0, d.battery_kw)

----------------------------------------------------------------------------
(* POST /analyze: analyze_microgrid, one action per stage of the handler   *)

None == [none |-> TRUE]

\* a 500 that hides the exception message
InternalError_opaque(detail) ==
    [status |-> 500, detail |-> "Internal Server Error"]

\* except Exception as e: raise HTTPException(status_code=500, detail=str(e))
InternalError(detail) == [status |-> 500, detail |-> detail]

\* the body fails the FacilityInput model: the handler is not called
ValidationError == [status |-> 422]

\* the stages of the handler in the order of its statements
Stages == <<"analyze_load", "size_system", "estimate_costs",
            "analyze_financials", "assess_reliability",
            "generate_recommendations">>

FullAnalysisResult(la, d, c, fin, rel, recs) ==
    [status |-> 200, facility |-> la, design |-> d, costs |-> c,
     financial |-> fin, reliability |-> rel, recommendations |-> recs]

----------------------------------------------------------------------------
(* The server process: load_data at import, then the endpoints             *)

\* the tables in the order load_data reads them
TableNames ==
    <<"component_costs", "solar_resource", "financial_params",
      "utility_rates", "load_profiles", "reliability", "tou_rates",
      "la_incentives">>

\* a string as the sequence of its characters
Hotel == <<"H", "o", "t", "e", "l">>
Office == <<"O", "f", "f", "i", "c", "e">>

\* pd.read_csv of a readable file: the rows of the table
read_csv(name) ==
    CASE name = "load_profiles" ->
             <<[Building_Type |-> Hotel, Peak_kW |-> 1],
               [Building_Type |-> Office, Peak_kW |-> 2]>>
      [] name = "component_costs" ->
             <<[Component |-> "Solar PV", Unit_Cost |-> 1551],
               [Component |-> "Battery", Unit_Cost |-> 485]>>
      [] name = "financial_params" ->
             <<[Parameter |-> "federal_itc", Value |-> 30]>>
      [] OTHER -> <<[Table |-> name]>>

\* data = {}
EmptyDict == [k \in {} |-> <<>>]

\* DATA.get(key, pd.DataFrame())
DataGet(D, key) == IF key \in DOMAIN D THEN D[key] ELSE <<>>

\* str.lower of one character
LowerChar(c) ==
    CASE c = "H" -> "h"
      [] c = "O" -> "o"
      [] OTHER -> c

LowerStr(str) == [i \in 1..Len(str) |-> LowerChar(str[i])]

\* str.contains(pat, case=False) for a pattern of plain characters
Contains(str, pat) ==
    \E i \in 1..(Len(str) - Len(pat) + 1) :
        SubSeq(LowerStr(str), i, i + Len(pat) - 1) = LowerStr(pat)

\* the building_type query parameters of the model; <<>> is the absent
\* parameter or the empty string, both false in "if building_type:"
BuildingTypeFilters == {<<>>, <<"h", "o">>}

\* df[df['Building_Type'].str.contains(building_type, case=False, na=False)]
\* (a new frame), or df itself without a building_type
filter_load_profiles(df, building_type) ==
    IF building_type = <<>>
    THEN df
    ELSE SelectSeq(df, LAMBDA row : Contains(row.Building_Type, building_type))

\* the df = df[...] of get_load_profiles writing the filtered frame back
DATA_after_load_profiles_in_place(D, df) ==
    IF "load_profiles" \in DOMAIN D
    THEN [D EXCEPT !["load_profiles"] = df]
    ELSE D

\* get_load_profiles rebinds its local df only: DATA is what it was
DATA_after_load_profiles(D, df) == D

\* the attributes the analyzers' constructors fill from DATA
Analyzers(D) ==
    [costs |-> DataGet(D, "component_costs"),
     params |-> DataGet(D, "financial_params")]

\* self.costs[component]['unit_cost'] of the loaded table, 0 for a
\* component the table does not list
loaded_unit_cost(analyzers, component) ==
    IF \E i \in 1..Len(analyzers.costs) :
           analyzers.costs[i].Component = component
    THEN LET i == CHOOSE i \in 1..Len(analyzers.costs) :
                      analyzers.costs[i].Component = component
         IN analyzers.costs[i].Unit_Cost
    ELSE 0

\* the solar array priced from self.costs, the table loaded from DATA
estimate_costs_from_loaded_table(analyzers, d) ==
    [estimate_costs(d) EXCEPT
         !.solar_pv_cost =
             Round(d.solar_pv_kw * loaded_unit_cost(analyzers, "Solar PV"),
                   10)]

\* cost_estimator.estimate_costs(design): the estimator holds self.costs,
\* filled from DATA, and self.default_costs; only default_costs is read
estimate_costs_of(analyzers, d) == estimate_costs(d)

\* no request on this connection
IdleSlot ==
    [kind |-> "none", pc |-> "idle", query |-> None, facility |-> None,
     analyzers |-> None,
     load_analysis |-> None, design |-> None, costs |-> None,
     financial |-> None, reliability |-> None, recommendations |-> <<>>,
     response |-> None]

\* analyze_microgrid entered with a validated facility: the five
\* analyzers are constructed on DATA
NewAnalyze(f, D) ==
    [IdleSlot EXCEPT !.kind = "analyze", !.pc = "analyze_load",
                     !.facility = f, !.analyzers = Analyzers(D)]

\* a GET handler has run on its query and its response is ready
Answered(kind, query, resp) ==
    [IdleSlot EXCEPT !.kind = kind, !.pc = "respond", !.query = query,
                     !.response = resp]

\* the except clause of analyze_microgrid
Fail(q) ==
    [q EXCEPT !.pc = "respond",
              !.response = InternalError("float division by zero")]

\* a load analyzer shared by the handlers that keeps its last result as an
\* attribute: size_system gets what the first connection's call left there
load_analysis_of_shared_analyzer(q) ==
    IF requests[1].load_analysis # None
    THEN requests[1].load_analysis
    ELSE q.load_analysis

\* the load_analysis that the handler passes on is its own local
load_analysis_of(q) == q.load_analysis

\* the next statement of analyze_microgrid on the handler locals q
run_stage(q, D) ==
    CASE q.pc = "analyze_load" ->
             IF analyze_load_raises(q.facility) THEN Fail(q)
             ELSE [q EXCEPT !.load_analysis = analyze_load(q.facility),
                            !.pc = "size_system"]
      [] q.pc = "size_system" ->
             IF size_system_raises(q.facility, load_analysis_of(q))
             THEN Fail(q)
             ELSE [q EXCEPT !.design =
                                size_system(q.facility, load_analysis_of(q)),
                            !.pc = "estimate_costs"]
      [] q.pc = "estimate_costs" ->
             IF estimate_costs_raises(q.design) THEN Fail(q)
             ELSE [q EXCEPT !.costs =
                                estimate_costs_of(q.analyzers, q.design),
                            !.pc = "analyze_financials"]
      [] q.pc = "analyze_financials" ->
             IF analyze_financials_raises(q.facility, q.design, q.costs)
             THEN Fail(q)
             ELSE [q EXCEPT !.financial =
                                analyze_financials(q.facility, q.design,
                                                   q.costs),
                            !.pc = "assess_reliability"]
      [] q.pc = "assess_reliability" ->
             IF assess_reliability_raises(q.facility, q.design,
                                          load_analysis_of(q))
             THEN Fail(q)
             ELSE [q EXCEPT !.reliability =
                                assess_reliability(q.facility, q.design,
                                                   load_analysis_of(q)),
                            !.pc = "generate_recommendations"]
      [] q.pc = "generate_recommendations" ->
             IF generate_recommendations_raises(q.design) THEN Fail(q)
             ELSE LET recs == generate_recommendations(
                                  q.facility, q.design, q.costs, q.financial,
                                  q.reliability)
                  IN [q EXCEPT !.recommendations = recs,
                               !.pc = "respond",
                               !.response =
                                   FullAnalysisResult(
                                       q.load_analysis, q.design, q.costs,
                                       q.financial, q.reliability, recs)]
      [] OTHER -> q

MaxConnections == 2

Connections == 1..MaxConnections

\* the facilities POSTed to the server
ServedInputs ==
    {f \in FacilityInput :
        /\ f.facility_type = "commercial"
        /\ f.peak_demand_kw = PeakStep
        /\ f.annual_consumption_kwh = AnnualStep
        /\ f.critical_load_percent = 10
        /\ f.essential_load_percent # 40
        /\ f.backup_duration_hours = 40
        /\ f.include_solar
        /\ f.include_battery
        /\ f.include_generator}

\* the tables asked for through their passthrough endpoints
ServedTables == {"component_costs", "financial_params", "la_incentives"}

\* the process before load_data has run
ServerInit ==
    /\ boot = "loading"
    /\ data = EmptyDict
    /\ DATA = EmptyDict
    /\ warned = FALSE
    /\ requests = [r \in Connections |-> IdleSlot]
    /\ observed = None

\* no call of safe_request in progress
RetryIdle ==
    /\ retry_pc = "idle"
    /\ url = None
    /\ max_retries = 0
    /\ attempt = 0
    /\ outcomes = <<>>
    /\ sleeps = <<>>
    /\ result = None

Init ==
    /\ ServerInit
    /\ RetryIdle
    /\ pc = "idle"
    /\ body = None
    /\ facility = None
    /\ load_analysis = None
    /\ design = None
    /\ costs = None
    /\ financial = None
    /\ reliability = None
    /\ recommendations = <<>>
    /\ response = None
    /\ trace = <<>>

\* a validated FacilityInput reaches the handler
Request ==
    /\ pc = "idle"
    /\ \E b \in RequestBodies :
          /\ validate(b)
          /\ body' = b
          /\ facility' = b
    /\ pc' = "analyze_load"
    /\ UNCHANGED <<load_analysis, design, costs, financial, reliability,
                   recommendations, response, trace>>
    /\ UNCHANGED <<server_vars, retry_vars>>

\* a body that fails validation is answered without calling the handler
Reject ==
    /\ pc = "idle"
    /\ \E b \in RequestBodies :
          /\ ~validate(b)
          /\ body' = b
    /\ response' = ValidationError
    /\ pc' = "rejected"
    /\ UNCHANGED <<facility, load_analysis, design, costs, financial,
                   reliability, recommendations, trace>>
    /\ UNCHANGED <<server_vars, retry_vars>>

AnalyzeLoad ==
    /\ pc = "analyze_load"
    /\ IF analyze_load_raises(facility)
       THEN /\ response' = InternalError("float division by zero")
            /\ pc' = "respond"
            /\ UNCHANGED load_analysis
       ELSE /\ load_analysis' = analyze_load(facility)
            /\ pc' = "size_system"
            /\ UNCHANGED response
    /\ trace' = Append(trace, "analyze_load")
    /\ UNCHANGED <<body, facility, design, costs, financial, reliability,
                   recommendations>>
    /\ UNCHANGED <<server_vars, retry_vars>>

SizeSystem ==
    /\ pc = "size_system"
    /\ IF size_system_raises(facility, load_analysis)
       THEN /\ response' = InternalError("float division by zero")
            /\ pc' = "respond"
            /\ UNCHANGED design
       ELSE /\ design' = size_system(facility, load_analysis)
            /\ pc' = "estimate_costs"
            /\ UNCHANGED response
    /\ trace' = Append(trace, "size_system")
    /\ UNCHANGED <<body, facility, load_analysis, costs, financial, reliability,
                   recommendations>>
    /\ UNCHANGED <<server_vars, retry_vars>>

EstimateCosts ==
    /\ pc = "estimate_costs"
    /\ IF estimate_costs_raises(design)
       THEN /\ response' = InternalError("float division by zero")
            /\ pc' = "respond"
            /\ UNCHANGED costs
       ELSE /\ costs' = estimate_costs(design)
            /\ pc' = "analyze_financials"
            /\ UNCHANGED response
    /\ trace' = Append(trace, "estimate_costs")
    /\ UNCHANGED <<body, facility, load_analysis, design, financial, reliability,
                   recommendations>>
    /\ UNCHANGED <<server_vars, retry_vars>>

AnalyzeFinancials ==
    /\ pc = "analyze_financials"
    /\ IF analyze_financials_raises(facility, design, costs)
       THEN /\ response' = InternalError("float division by zero")
            /\ pc' = "respond"
            /\ UNCHANGED financial
       ELSE /\ financial' = analyze_financials(facility, design, costs)
            /\ pc' = "assess_reliability"
            /\ UNCHANGED response
    /\ trace' = Append(trace, "analyze_financials")
    /\ UNCHANGED <<body, facility, load_analysis, design, costs, reliability,
                   recommendations>>
    /\ UNCHANGED <<server_vars, retry_vars>>

AssessReliability ==
    /\ pc = "assess_reliability"
    /\ IF assess_reliability_raises(facility, design, load_analysis)
       THEN /\ response' = InternalError("float division by zero")
            /\ pc' = "respond"
            /\ UNCHANGED reliability
       ELSE /\ reliability' =
                   assess_reliability(facility, design, load_analysis)
            /\ pc' = "generate_recommendations"
            /\ UNCHANGED response
    /\ trace' = Append(trace, "assess_reliability")
    /\ UNCHANGED <<body, facility, load_analysis, design, costs, financial,
                   recommendations>>
    /\ UNCHANGED <<server_vars, retry_vars>>

\* the last stage builds the FullAnalysisResult and the handler returns
GenerateRecommendations ==
    /\ pc = "generate_recommendations"
    /\ pc' = "respond"
    /\ IF generate_recommendations_raises(design)
       THEN /\ response' = InternalError("float division by zero")
            /\ UNCHANGED recommendations
       ELSE LET recs == generate_recommendations(facility, design, costs,
                                                 financial, reliability)
            IN /\ recommendations' = recs
               /\ response' = FullAnalysisResult(load_analysis, design,
                                                  costs, financial,
                                                      reliability, recs)
    /\ trace' = Append(trace, "generate_recommendations")
    /\ UNCHANGED <<body, facility, load_analysis, design, costs, financial,
                   reliability>>
    /\ UNCHANGED <<server_vars, retry_vars>>

\* the response is sent but the design outlives the request
Respond_keeps_design ==
    /\ pc \in {"respond", "rejected"}
    /\ pc' = "idle"
    /\ body' = None
    /\ facility' = None
    /\ load_analysis' = None
    /\ costs' = None
    /\ financial' = None
    /\ reliability' = None
    /\ recommendations' = <<>>
    /\ response' = None
    /\ trace' = <<>>
    /\ UNCHANGED design
    /\ UNCHANGED <<server_vars, retry_vars>>

\* the response (result or error) is sent and the handler's locals are gone
Respond ==
    /\ pc \in {"respond", "rejected"}
    /\ pc' = "idle"
    /\ body' = None
    /\ facility' = None
    /\ load_analysis' = None
    /\ design' = None
    /\ costs' = None
    /\ financial' = None
    /\ reliability' = None
    /\ recommendations' = <<>>
    /\ response' = None
    /\ trace' = <<>>
    /\ UNCHANGED <<server_vars, retry_vars>>

Next ==
    \/ Request
    \/ Reject
    \/ AnalyzeLoad
    \/ SizeSystem
    \/ EstimateCosts
    \/ AnalyzeFinancials
    \/ AssessReliability
    \/ GenerateRecommendations
    \/ Respond

Spec == Init /\ [][Next]_vars

----------------------------------------------------------------------------
(* analyze_load and size_system on facilities of commercial size, all      *)
(* three components included                                               *)

MaxSizingPeakSteps == 4
SizingPeakStep == 12500
MaxSizingAnnualSteps == 4
SizingAnnualStep == 500000

\* peak 500 kW, 2,000,000 kWh a year, 30 % critical, 40 % essential, 24 h
ReferenceScenario ==
    [facility_type |-> "commercial",
     peak_demand_kw |-> 50000,
     annual_consumption_kwh |-> 2000000,
     critical_load_percent |-> 30,
     essential_load_percent |-> 40,
     backup_duration_hours |-> 240,
     include_solar |-> TRUE,
     include_battery |-> TRUE,
     include_generator |-> TRUE]

SizingInputs ==
    {f \in FacilityInput :
        f.include_solar /\ f.include_battery /\ f.include_generator}
    \cup
    [facility_type : {"commercial"},
     peak_demand_kw : {k * SizingPeakStep : k \in 1..MaxSizingPeakSteps},
     annual_consumption_kwh :
         {k * SizingAnnualStep : k \in 1..MaxSizingAnnualSteps},
     critical_load_percent : {0, 10, 30, 100},
     essential_load_percent : EssentialPercents,
     backup_duration_hours : BackupDurations,
     include_solar : {TRUE},
     include_battery : {TRUE},
     include_generator : {TRUE}]
    \cup {ReferenceScenario}

\* the handler entered with one of the facilities
SizingInit ==
    /\ ServerInit
    /\ RetryIdle
    /\ pc = "analyze_load"
    /\ body \in {b \in SizingInputs : validate(b)}
    /\ facility = body
    /\ load_analysis = None
    /\ design = None
    /\ costs = None
    /\ financial = None
    /\ reliability = None
    /\ recommendations = <<>>
    /\ response = None
    /\ trace = <<>>

SizingNext ==
    \/ AnalyzeLoad
    \/ SizeSystem

SizingSpec == SizingInit /\ [][SizingNext]_vars

----------------------------------------------------------------------------
(* The whole /analyze chain on facilities of commercial size: 100 kW peak, *)
(* a backup load of 10 or 20 kW, batteries of 0.1 h, 1 h and 4 h           *)

CommercialInputs ==
    [facility_type : {"commercial", "Hospital"},
     peak_demand_kw : {10000},
     annual_consumption_kwh : {1752, 13140},
     critical_load_percent : {10, 20},
     essential_load_percent : {0},
     backup_duration_hours : {1, 10, 40},
     include_solar : BOOLEAN,
     include_battery : BOOLEAN,
     include_generator : BOOLEAN]

\* the handler entered with one of the facilities
CommercialInit ==
    /\ ServerInit
    /\ RetryIdle
    /\ pc = "analyze_load"
    /\ body \in {b \in CommercialInputs : validate(b)}
    /\ facility = body
    /\ load_analysis = None
    /\ design = None
    /\ costs = None
    /\ financial = None
    /\ reliability = None
    /\ recommendations = <<>>
    /\ response = None
    /\ trace = <<>>

CommercialNext ==
    \/ AnalyzeLoad
    \/ SizeSystem
    \/ EstimateCosts
    \/ AnalyzeFinancials
    \/ AssessReliability
    \/ GenerateRecommendations

CommercialSpec == CommercialInit /\ [][CommercialNext]_vars

----------------------------------------------------------------------------
(* The server: DATA = load_data() at import, then the endpoints, served on *)
(* several connections whose /analyze handlers interleave between stages   *)

\* one pd.read_csv of load_data succeeds
ReadTable ==
    /\ boot = "loading"
    /\ Cardinality(DOMAIN data) < Len(TableNames)
    /\ LET name == TableNames[Cardinality(DOMAIN data) + 1]
       IN data' = [k \in DOMAIN data \cup {name} |->
                      IF k = name THEN read_csv(name) ELSE data[k]]
    /\ UNCHANGED <<boot, DATA, warned, requests, observed>>
    /\ UNCHANGED <<chain_vars, retry_vars>>

\* one pd.read_csv raises: the warning is printed, the tables read so far
\* are returned and become DATA
ReadFails ==
    /\ boot = "loading"
    /\ Cardinality(DOMAIN data) < Len(TableNames)
    /\ warned' = TRUE
    /\ DATA' = data
    /\ boot' = "serving"
    /\ UNCHANGED <<data, requests, observed>>
    /\ UNCHANGED <<chain_vars, retry_vars>>

\* all eight tables are read and become DATA
LoadComplete ==
    /\ boot = "loading"
    /\ Cardinality(DOMAIN data) = Len(TableNames)
    /\ DATA' = data
    /\ boot' = "serving"
    /\ UNCHANGED <<data, warned, requests, observed>>
    /\ UNCHANGED <<chain_vars, retry_vars>>

\* POST /analyze with a validated facility arrives on connection r
Analyze(r) ==
    /\ boot = "serving"
    /\ requests[r].pc = "idle"
    /\ \E f \in ServedInputs :
          requests' = [requests EXCEPT ![r] = NewAnalyze(f, DATA)]
    /\ UNCHANGED <<boot, data, DATA, warned, observed>>
    /\ UNCHANGED <<chain_vars, retry_vars>>

\* the /analyze handler of connection r executes its next statement
ServeStage(r) ==
    /\ requests[r].kind = "analyze"
    /\ requests[r].pc \notin {"idle", "respond"}
    /\ requests' =
           [requests EXCEPT ![r] = run_stage(requests[r], DATA)]
    /\ UNCHANGED <<boot, data, DATA, warned, observed>>
    /\ UNCHANGED <<chain_vars, retry_vars>>

\* GET /health
HealthCheck(r) ==
    /\ boot = "serving"
    /\ requests[r].pc = "idle"
    /\ requests' =
           [requests EXCEPT ![r] =
                Answered("health", None,
                         [status |-> 200,
                          data_loaded |-> Cardinality(DOMAIN DATA) > 0])]
    /\ UNCHANGED <<boot, data, DATA, warned, observed>>
    /\ UNCHANGED <<chain_vars, retry_vars>>

\* GET /component-costs, /financial-parameters, /louisiana-incentives; the
\* handlers of /utility-rates, /reliability-data, /solar-resource and
\* /tou-rates are the same statements on another key
GetTable(r) ==
    /\ boot = "serving"
    /\ requests[r].pc = "idle"
    /\ \E name \in ServedTables :
          requests' =
              [requests EXCEPT ![r] =
                   Answered("table", name,
                            [status |-> 200, rows |-> DataGet(DATA, name)])]
    /\ UNCHANGED <<boot, data, DATA, warned, observed>>
    /\ UNCHANGED <<chain_vars, retry_vars>>

\* GET /load-profiles, with or without building_type
GetLoadProfiles(r) ==
    /\ boot = "serving"
    /\ requests[r].pc = "idle"
    /\ \E building_type \in BuildingTypeFilters :
          LET df == filter_load_profiles(DataGet(DATA, "load_profiles"),
                                         building_type)
          IN /\ requests' =
                    [requests EXCEPT ![r] =
                         Answered("load_profiles", building_type,
                                  [status |-> 200, rows |-> df])]
             /\ DATA' = DATA_after_load_profiles(DATA, df)
    /\ UNCHANGED <<boot, data, warned, observed>>
    /\ UNCHANGED <<chain_vars, retry_vars>>

\* the response of connection r is sent and the handler's locals are gone
Return(r) ==
    /\ requests[r].pc = "respond"
    /\ requests' = [requests EXCEPT ![r] = IdleSlot]
    /\ UNCHANGED <<boot, data, DATA, warned, observed>>
    /\ UNCHANGED <<chain_vars, retry_vars>>

\* the same for an /analyze exchange that is kept for later comparison
ReturnObserved(r) ==
    /\ requests[r].pc = "respond"
    /\ requests[r].kind = "analyze"
    /\ observed = None
    /\ observed' = [facility |-> requests[r].facility,
                    response |-> requests[r].response]
    /\ requests' = [requests EXCEPT ![r] = IdleSlot]
    /\ UNCHANGED <<boot, data, DATA, warned>>
    /\ UNCHANGED <<chain_vars, retry_vars>>

ServerNext ==
    \/ ReadTable
    \/ ReadFails
    \/ LoadComplete
    \/ \E r \in Connections :
          \/ Analyze(r)
          \/ ServeStage(r)
          \/ HealthCheck(r)
          \/ GetTable(r)
          \/ GetLoadProfiles(r)
          \/ Return(r)
          \/ ReturnObserved(r)

ServerSpec == Init /\ [][ServerNext]_vars

----------------------------------------------------------------------------
(* DataCollectionUtils.safe_request (src/data_utils.py)                    *)

\* max_retries: int = 3
default_max_retries == 3

MaxRetries == 4

Urls == {"https://developer.nrel.gov", "https://api.eia.gov"}

RECURSIVE Pow2(_)
Pow2(n) == IF n = 0 THEN 1 ELSE 2 * Pow2(n - 1)

\* safe_request(url, max_retries=m) is called; range(max_retries) starts
Call ==
    /\ retry_pc = "idle"
    /\ \E u \in Urls, m \in 0..MaxRetries :
          /\ url' = u
          /\ max_retries' = m
    /\ retry_pc' = "loop"
    /\ attempt' = 0
    /\ outcomes' = <<>>
    /\ sleeps' = <<>>
    /\ result' = None
    /\ UNCHANGED <<chain_vars, server_vars>>

\* requests.get returns and raise_for_status passes: return response
GetSucceeds ==
    /\ retry_pc = "loop"
    /\ attempt < max_retries
    /\ outcomes' = Append(outcomes, "ok")
    /\ result' = [url |-> url, status |-> 200]
    /\ retry_pc' = "done"
    /\ UNCHANGED <<url, max_retries, attempt, sleeps>>
    /\ UNCHANGED <<chain_vars, server_vars>>

\* the except clause sleeping after every failure, the last one too
RequestFails_always_sleeps(kind) ==
    /\ retry_pc = "loop"
    /\ attempt < max_retries
    /\ outcomes' = Append(outcomes, kind)
    /\ sleeps' = Append(sleeps, Pow2(attempt))
    /\ IF attempt < max_retries - 1
       THEN /\ attempt' = attempt + 1
            /\ UNCHANGED <<retry_pc, result>>
       ELSE /\ retry_pc' = "done"
            /\ result' = None
            /\ UNCHANGED attempt
    /\ UNCHANGED <<url, max_retries>>
    /\ UNCHANGED <<chain_vars, server_vars>>

\* an except clause that catches connection errors only: the HTTPError of
\* raise_for_status on the last attempt reaches the caller
RequestFails_http_error_escapes(kind) ==
    /\ retry_pc = "loop"
    /\ attempt < max_retries
    /\ outcomes' = Append(outcomes, kind)
    /\ IF attempt < max_retries - 1
       THEN /\ sleeps' = Append(sleeps, Pow2(attempt))
            /\ attempt' = attempt + 1
            /\ UNCHANGED <<retry_pc, result>>
       ELSE /\ retry_pc' = IF kind = "http_error" THEN "raised" ELSE "done"
            /\ result' = None
            /\ UNCHANGED <<sleeps, attempt>>
    /\ UNCHANGED <<url, max_retries>>
    /\ UNCHANGED <<chain_vars, server_vars>>

\* requests.get raises (kind "error") or raise_for_status does (kind
\* "http_error"): sleep 2 ** attempt and go on, or return None after the
\* last attempt
RequestFails(kind) ==
    /\ retry_pc = "loop"
    /\ attempt < max_retries
    /\ outcomes' = Append(outcomes, kind)
    /\ IF attempt < max_retries - 1
       THEN /\ sleeps' = Append(sleeps, Pow2(attempt))
            /\ attempt' = attempt + 1
            /\ UNCHANGED <<retry_pc, result>>
       ELSE /\ retry_pc' = "done"
            /\ result' = None
            /\ UNCHANGED <<sleeps, attempt>>
    /\ UNCHANGED <<url, max_retries>>
    /\ UNCHANGED <<chain_vars, server_vars>>

\* range(max_retries) is empty: the return None after the loop
LoopEnds ==
    /\ retry_pc = "loop"
    /\ attempt >= max_retries
    /\ retry_pc' = "done"
    /\ result' = None
    /\ UNCHANGED <<url, max_retries, attempt, outcomes, sleeps>>
    /\ UNCHANGED <<chain_vars, server_vars>>

RetryNext ==
    \/ Call
    \/ GetSucceeds
    \/ \E kind \in {"error", "http_error"} : RequestFails(kind)
    \/ LoopEnds

RetrySpec == Init /\ [][RetryNext]_vars

\* one step of a call in progress: requests.get comes back within timeout
\* seconds (a response or a RequestException), time.sleep returns, the
\* for loop goes on
safe_request_step ==
    \/ GetSucceeds
    \/ \E kind \in {"error", "http_error"} : RequestFails(kind)
    \/ LoopEnds

\* a call that was started keeps running
RetryFairSpec == RetrySpec /\ WF_vars(safe_request_step)

----------------------------------------------------------------------------
(* Properties                                                              *)

NoFlags(f) == ~f.include_solar /\ ~f.include_battery /\ ~f.include_generator

Abs(x) == IF x < 0 THEN -x ELSE x

\* C1: no stage of /analyze raises a division by zero: no request ends
\* with the HTTP 500 that the handler makes of a ZeroDivisionError.
C1_NoDivisionByZero == pc = "respond" => response.status # 500

\* C2 (as claimed): with the three flags false size_system returns an
\* all-zero design (inverter_kw included), renewable_fraction 0 and
\* critical_load_coverage 1.0.
C2_AllZeroDesign ==
    (design # None /\ NoFlags(facility)) =>
        design = [solar_pv_kw |-> 0, battery_kw |-> 0, battery_kwh |-> 0,
                  generator_kw |-> 0, inverter_kw |-> 0,
                  total_generation_kw |-> 0, renewable_fraction |-> 0,
                  critical_load_coverage |-> 1000]

\* C2 (amended): with the three flags false solar, battery, generator and
\* total generation are 0 and renewable_fraction is 0, but inverter_kw is
\* round(1.1 * backup_load_kw, 1) and critical_load_coverage is 0 when
\* critical_load_kw > 0 (1.0 only when critical_load_kw = 0).
C2_NoFlagsDesign ==
    (design # None /\ NoFlags(facility)) =>
        /\ design.solar_pv_kw = 0
        /\ design.battery_kw = 0
        /\ design.battery_kwh = 0
        /\ design.generator_kw = 0
        /\ design.total_generation_kw = 0
        /\ design.renewable_fraction = 0
        /\ design.inverter_kw
               = 100 * Round(load_analysis.backup_load_kw * 11, 100)
        /\ design.critical_load_coverage
               = (IF load_analysis.critical_load_kw > 0 THEN 0 ELSE 1000)

\* C2 witness: a design sized with no flag set whose inverter is not zero
\* and whose coverage is 0
C2_Witness ==
    /\ design # None
    /\ NoFlags(facility)
    /\ design.inverter_kw > 0
    /\ design.critical_load_coverage = 0

\* C3 (as claimed): with the three flags false the cost estimate has
\* total_capital_cost = 0 and cost_per_kw = 0 and nothing raises.
C3_ZeroCost ==
    /\ (costs # None /\ NoFlags(facility)) =>
           (costs.total_capital_cost = 0 /\ costs.cost_per_kw = 0)
    /\ (pc = "respond" /\ NoFlags(facility)) => response.status = 200

\* C3 (amended): with the three flags false cost_per_kw = 0 and nothing
\* raises, the solar, battery and generator costs are 0, and
\* total_capital_cost is the inverter's cost with BOS and installation,
\* 1.35 * 150 * inverter_kw, which is 0 only when inverter_kw is 0.
C3_NoFlagsCost ==
    /\ (costs # None /\ NoFlags(facility)) =>
           /\ costs.cost_per_kw = 0
           /\ costs.solar_pv_cost = 0
           /\ costs.battery_cost = 0
           /\ costs.generator_cost = 0
           /\ costs.total_capital_cost
                  = Round(design.inverter_kw * inverter_per_kw * 135, 1000)
           /\ (costs.total_capital_cost = 0 <=> design.inverter_kw = 0)
    /\ (pc = "respond" /\ NoFlags(facility)) => response.status = 200

\* C3 witness: a request with no flag set answered with a positive
\* total_capital_cost
C3_Witness ==
    /\ pc = "respond"
    /\ NoFlags(facility)
    /\ response.status = 200
    /\ response.costs.total_capital_cost > 0
    /\ response.costs.cost_per_kw = 0

\* C4: the sizer and the reliability analyzer consume the load analysis
\* at full precision: design and reliability equal those computed from the
\* unrounded critical / essential / backup / average demand.
C4_FullPrecisionDownstream ==
    /\ design # None =>
           design = size_system(facility, load_unrounded(facility))
    /\ reliability # None =>
           reliability = assess_reliability(facility, design,
                                            load_unrounded(facility))

C6_DesignNonNegative ==
    design # None =>
        /\ design.solar_pv_kw >= 0
        /\ design.battery_kw >= 0
        /\ design.battery_kwh >= 0
        /\ design.generator_kw >= 0
        /\ design.inverter_kw >= 0
        /\ design.total_generation_kw >= 0
        /\ design.renewable_fraction >= 0
        /\ design.critical_load_coverage >= 0
        /\ (~facility.include_solar => design.solar_pv_kw = 0)
        /\ (~facility.include_battery =>
               design.battery_kw = 0 /\ design.battery_kwh = 0)
        /\ (~facility.include_generator => design.generator_kw = 0)

\* C6 witness: a design with only the generator excluded, the other
\* components sized
C6_Witness ==
    /\ design # None
    /\ ~facility.include_generator
    /\ design.generator_kw = 0
    /\ design.solar_pv_kw > 0
    /\ design.battery_kwh > 0

\* C7: critical_load_coverage lies in [0, 1].
C7_CoverageInUnitInterval ==
    design # None =>
        (design.critical_load_coverage >= 0
         /\ design.critical_load_coverage <= 1000)

\* C7 witness: battery_kw + generator_kw exceeds a positive critical load
\* and the coverage is 1.0
C7_Witness ==
    /\ design # None
    /\ load_analysis.critical_load_kw > 0
    /\ design.battery_kw + design.generator_kw
           > 10 * load_analysis.critical_load_kw
    /\ design.critical_load_coverage = 1000

\* C8: with critical_load_percent = 0 size_system does not raise and
\* returns critical_load_coverage = 1.0, whatever the flags.
C8_ZeroCriticalCoverage ==
    (facility # None /\ facility.critical_load_percent = 0) =>
        /\ pc \notin {"idle", "analyze_load", "size_system"} => design # None
        /\ design # None => design.critical_load_coverage = 1000

\* C8 witness: a design sized for critical_load_percent = 0 with no flag
\* set and a positive essential load
C8_Witness ==
    /\ design # None
    /\ facility.critical_load_percent = 0
    /\ NoFlags(facility)
    /\ load_analysis.backup_load_kw > 0
    /\ design.critical_load_coverage = 1000

\* C9: reliability_improvement_percent lies in [0, 99].
C9_ImprovementInRange ==
    reliability # None =>
        (reliability.reliability_improvement_percent >= 0
         /\ reliability.reliability_improvement_percent <= 990)

\* C9 witness: a generator gives more backup hours than the expected
\* outage hours and the improvement is the flat 95
C9_Witness ==
    /\ reliability # None
    /\ design.generator_kw > 0
    /\ reliability.backup_duration_hours > 720
    /\ reliability.reliability_improvement_percent = 950

\* C10: whenever net_annual_savings <= 0, simple_payback_years is 999.
C10_PaybackSentinel ==
    (financial # None /\ net_annual_savings(design, costs) <= 0) =>
        financial.simple_payback_years = 9990

\* C10 witness: a financial analysis with strictly negative net annual
\* savings and the sentinel
C10_Witness ==
    /\ financial # None
    /\ net_annual_savings(design, costs) < 0
    /\ financial.simple_payback_years = 9990

\* C13: when facility_type, lower-cased, is not a key of interruption_costs,
\* assess_reliability does not raise and avoided_outage_cost is computed
\* at 25 $/kWh: the assessment equals the one for "commercial".
C13_DefaultInterruptionCost ==
    (facility # None
     /\ Lower(facility.facility_type) \notin interruption_cost_keys) =>
        /\ (trace # <<>> /\ trace[Len(trace)] = "assess_reliability") =>
               reliability # None
        /\ reliability # None =>
               /\ reliability.avoided_outage_cost =
                      MulDivRound(load_analysis.critical_load_kw * 25
                                      * expected_outage_num,
                                  design.critical_load_coverage,
                                  load_analysis.kw_den * expected_outage_den
                                      * 10)
               /\ reliability =
                      assess_reliability(
                          [facility EXCEPT !.facility_type = "commercial"],
                          design, load_analysis)

\* C13 witness: an assessed "warehouse" with a positive avoided outage cost
C13_Witness ==
    /\ reliability # None
    /\ facility.facility_type = "warehouse"
    /\ reliability.avoided_outage_cost > 0

\* the last stage called has raised
StageRaised ==
    /\ trace # <<>>
    /\ LET last == trace[Len(trace)]
       IN CASE last = "analyze_load" -> analyze_load_raises(facility)
            [] last = "size_system" ->
                   size_system_raises(facility, load_analysis)
            [] last = "estimate_costs" -> estimate_costs_raises(design)
            [] last = "analyze_financials" ->
                   analyze_financials_raises(facility, design, costs)
            [] last = "assess_reliability" ->
                   assess_reliability_raises(facility, design, load_analysis)
            [] OTHER -> generate_recommendations_raises(design)

\* C14: when a stage raises, the request ends with an HTTP 500 whose detail
\* is the exception message and which carries no result of any stage, and
\* no stage is called a second time.
C14_ErrorResponse ==
    /\ StageRaised =>
           /\ pc = "respond"
           /\ response = [status |-> 500, detail |-> "float division by zero"]
    /\ (pc = "respond" /\ response.status = 500) => StageRaised
    /\ \A i, j \in 1..Len(trace) : i < j => trace[i] # trace[j]

\* C14 witness: generate_recommendations has raised after five stages
C14_Witness ==
    /\ pc = "respond"
    /\ response.status = 500
    /\ Len(trace) = 6
    /\ reliability # None

\* C15: a body with peak_demand_kw <= 0, annual_consumption_kwh <= 0, a
\* percentage outside [0, 100] or backup_duration_hours <= 0 is rejected
\* before analyze_load is called; analyze_load never runs with
\* peak_demand_kw = 0.
C15_RejectedBeforeLoadAnalysis ==
    /\ (body # None
        /\ (\/ body.peak_demand_kw <= 0
            \/ body.annual_consumption_kwh <= 0
            \/ body.critical_load_percent < 0
            \/ body.critical_load_percent > 100
            \/ body.essential_load_percent < 0
            \/ body.essential_load_percent > 100
            \/ body.backup_duration_hours <= 0)) =>
           /\ pc = "rejected"
           /\ response = ValidationError
           /\ facility = None
           /\ trace = <<>>
    /\ (pc = "analyze_load" \/ trace # <<>>) => facility.peak_demand_kw > 0

\* C15 witness: a body with peak_demand_kw = 0 answered with the 422
C15_Witness ==
    /\ pc = "rejected"
    /\ response = ValidationError
    /\ body.peak_demand_kw = 0
    /\ trace = <<>>

\* the local that stage k of the handler assigns
StageOutput(k) ==
    CASE k = 1 -> load_analysis
      [] k = 2 -> design
      [] k = 3 -> costs
      [] k = 4 -> financial
      [] k = 5 -> reliability
      [] OTHER -> IF recommendations = <<>> THEN None
                  ELSE [recommendations |-> recommendations]

\* C17: within one request the stages run once each in the order load
\* analysis, sizing, costs, financials, reliability, recommendations; when
\* a stage runs the outputs of the stages before it exist and those of the
\* stages after it do not.
C17_StageOrder ==
    /\ Len(trace) <= Len(Stages)
    /\ \A i \in 1..Len(trace) : trace[i] = Stages[i]
    /\ (pc = "respond" /\ response.status = 200) => trace = Stages
    /\ \A k \in 1..Len(Stages) :
          /\ k > Len(trace) => StageOutput(k) = None
          /\ (k < Len(trace) \/ (k = Len(trace) /\ ~StageRaised)) =>
                 StageOutput(k) # None
    /\ pc \in {Stages[i] : i \in 1..Len(Stages)} =>
           pc = Stages[Len(trace) + 1]

\* C17 witness: a request that ran all six stages and returns its result
C17_Witness ==
    /\ pc = "respond"
    /\ response.status = 200
    /\ trace = Stages
    /\ response.design = design

AllFlags(f) == f.include_solar /\ f.include_battery /\ f.include_generator

\* C12: with all three flags true the design is the reference sizing, to
\* the one decimal size_system returns: solar_pv_kw is
\* min(average_kw * 1.3 / 0.269, 1.5 * peak_kw) and never above 1.5 * peak,
\* battery_kwh is backup_kw * min(4, backup_duration_hours) / 0.85 and
\* generator_kw is 1.2 * backup_kw; the reference scenario gives solar 750,
\* battery_kwh 1647.1, generator_kw 420.0 and critical_load_coverage 1.0.
C12_ReferenceSizing ==
    (design # None /\ AllFlags(facility)) =>
        /\ Abs(design.solar_pv_kw * 269
               - Min2(load_analysis.average_demand_kw * 13000,
                      facility.peak_demand_kw * 15 * 269)) <= 50 * 269
        /\ design.solar_pv_kw <= facility.peak_demand_kw * 15
        /\ 2 * Abs(design.battery_kwh * 85
                   - load_analysis.backup_load_kw
                         * Min2(40, facility.backup_duration_hours)) <= 85
        /\ Abs(design.generator_kw - 12 * load_analysis.backup_load_kw) <= 50
        /\ facility = ReferenceScenario =>
               /\ design.solar_pv_kw = 750000
               /\ design.battery_kwh = 16471
               /\ design.generator_kw = 420000
               /\ design.critical_load_coverage = 1000

\* C12 witness: the reference scenario sized, its solar array at the cap
C12_Witness ==
    /\ design # None
    /\ facility = ReferenceScenario
    /\ load_analysis.backup_load_kw = 35000
    /\ design.solar_pv_kw = 750000
    /\ design.battery_kwh = 16471

\* the /analyze exchanges whose response is ready
Responded == {r \in Connections : requests[r].kind = "analyze"
                                  /\ requests[r].pc = "respond"}

\* C11: the response of /analyze is a function of its FacilityInput only:
\* a request gets the response an earlier request with the same input
\* got, whatever was served in between, and two requests with the same
\* input served side by side get the same response.
C11_Idempotent ==
    \A r \in Responded :
        /\ (observed # None /\ observed.facility = requests[r].facility) =>
               requests[r].response = observed.response
        /\ \A r2 \in Responded :
               requests[r2].facility = requests[r].facility =>
                   requests[r2].response = requests[r].response

\* C11 witness: a full result is ready for the input of an earlier,
\* completed request while another connection has a different request
C11_Witness ==
    /\ observed # None
    /\ requests[1].pc = "respond"
    /\ requests[1].kind = "analyze"
    /\ requests[1].facility = observed.facility
    /\ requests[1].response.status = 200
    /\ requests[2].kind = "analyze"
    /\ requests[2].facility # observed.facility

\* C16 (as claimed): GET /health reports data_loaded = true exactly when
\* load_data read all eight tables without an exception.
C16_HealthReportsLoad ==
    \A r \in Connections :
        requests[r].kind = "health" =>
            (requests[r].response.data_loaded
                 <=> (~warned /\ DOMAIN DATA = {TableNames[i] :
                                                    i \in 1..Len(TableNames)}))

\* the handler of /analyze run to its end on its own
RECURSIVE RunToEnd(_, _, _)
RunToEnd(q, D, n) ==
    IF n = 0 THEN q ELSE RunToEnd(run_stage(q, D), D, n - 1)

RunAlone(f) == RunToEnd(NewAnalyze(f, DATA), DATA, Len(Stages)).response

\* C18: whatever the interleaving of the /analyze handlers, each request
\* gets the response it gets when run alone, and works on analyzers
\* constructed for it.
C18_IsolatedRequests ==
    \A r \in Connections :
        requests[r].kind = "analyze" =>
            /\ requests[r].pc = "respond" =>
                   requests[r].response = RunAlone(requests[r].facility)
            /\ requests[r].pc # "respond" =>
                   requests[r].analyzers = Analyzers(DATA)
            /\ requests[r].design # None =>
                   requests[r].design =
                       size_system(requests[r].facility,
                                   analyze_load(requests[r].facility))

\* C18 witness: a full result is ready on one connection while the handler
\* of another connection, with another facility, is between two stages
C18_Witness ==
    /\ requests[1].kind = "analyze"
    /\ requests[1].pc = "respond"
    /\ requests[1].response.status = 200
    /\ requests[2].kind = "analyze"
    /\ requests[2].pc = "estimate_costs"
    /\ requests[2].facility # requests[1].facility

\* C19: once the process serves, DATA holds the tables load_data returned,
\* each with the rows read from its file, whatever requests were served.
C19_DataUnchanged ==
    boot = "serving" =>
        /\ DATA = data
        /\ \A name \in DOMAIN DATA : DATA[name] = read_csv(name)

\* C19 witness: /load-profiles answered with a filter that drops a row,
\* next to an /analyze response, and the table still has both rows
C19_Witness ==
    /\ boot = "serving"
    /\ requests[1].kind = "load_profiles"
    /\ requests[1].query = <<"h", "o">>
    /\ Len(requests[1].response.rows) = 1
    /\ requests[2].kind = "analyze"
    /\ requests[2].pc = "respond"
    /\ Len(DATA["load_profiles"]) = 2

\* C20: one call of safe_request issues at most max_retries GETs, none
\* after a successful one, whose response it returns; after the k-th
\* failed attempt (k from 0) it sleeps 2^k seconds if another attempt
\* follows, and it never sleeps after the last attempt.
C20_BoundedRetry ==
    /\ Len(outcomes) <= max_retries
    /\ \A i \in 1..(Len(outcomes) - 1) : outcomes[i] # "ok"
    /\ (outcomes # <<>> /\ outcomes[Len(outcomes)] = "ok") =>
           /\ retry_pc = "done"
           /\ result = [url |-> url, status |-> 200]
    /\ \A k \in 1..Len(sleeps) : sleeps[k] = Pow2(k - 1)
    /\ retry_pc = "loop" => Len(sleeps) = Len(outcomes)
    /\ (retry_pc = "done" /\ outcomes # <<>>) =>
           Len(sleeps) = Len(outcomes) - 1
    /\ outcomes = <<>> => sleeps = <<>>

\* C20 witness: a call with the default max_retries whose three GETs all
\* failed: it slept 1 s and 2 s and returned None
C20_Witness ==
    /\ retry_pc = "done"
    /\ max_retries = default_max_retries
    /\ Len(outcomes) = 3
    /\ outcomes[3] = "http_error"
    /\ sleeps = <<1, 2>>
    /\ result = None

\* every attempt made so far failed with a RequestException
AllAttemptsFailed ==
    \A i \in 1..Len(outcomes) : outcomes[i] \in {"error", "http_error"}

\* C21: every call of safe_request terminates; no RequestException
\* reaches the caller; the call returns None exactly when it made
\* max_retries attempts and every one of them failed (with max_retries = 0
\* it makes no attempt and returns None).
C21_TerminatesWithNone ==
    /\ [](retry_pc \in {"idle", "loop", "done"})
    /\ [](retry_pc = "done" =>
             (result = None
                  <=> (Len(outcomes) = max_retries /\ AllAttemptsFailed)))
    /\ (retry_pc = "loop" ~> retry_pc = "done")

\* C21 witness: a call with max_retries = 2 whose two GETs failed, the
\* first with a connection error and the second with an HTTP error status,
\* has returned None
C21_Witness ==
    /\ retry_pc = "done"
    /\ max_retries = 2
    /\ outcomes = <<"error", "http_error">>
    /\ result = None

\* C22: whatever the inclusion flags, inverter_kw is at least solar_pv_kw
\* and at least battery_kw, and it is strictly positive whenever
\* backup_load_kw > 0.
C22_InverterCoversSubsystems ==
    design # None =>
        /\ design.inverter_kw >= design.solar_pv_kw
        /\ design.inverter_kw >= design.battery_kw
        /\ load_analysis.backup_load_kw > 0 => design.inverter_kw > 0

\* C23: cost_per_kw is total_capital_cost / (solar_pv_kw + generator_kw),
\* to the cent, when that sum is positive, and 0 when the sum is 0, the
\* capital cost of a battery-only design notwithstanding; battery and
\* inverter capacity are not in the denominator.  (Both returned amounts
\* are rounded to the cent, hence the tolerance.)
C23_CostPerKw ==
    costs # None =>
        LET total_capacity == design.solar_pv_kw + design.generator_kw
        IN /\ total_capacity > 0 =>
                  2 * Abs(costs.cost_per_kw * total_capacity
                          - costs.total_capital_cost * 1000)
                      <= total_capacity + 1000
           /\ total_capacity = 0 => costs.cost_per_kw = 0

\* C23 witness: a battery-only design with a positive capital cost and
\* cost_per_kw 0
C23_Witness ==
    /\ costs # None
    /\ design.solar_pv_kw + design.generator_kw = 0
    /\ design.battery_kwh > 0
    /\ costs.total_capital_cost > 0
    /\ costs.cost_per_kw = 0

\* the facility with another requested backup duration
WithBackupDuration(f, h) == [f EXCEPT !.backup_duration_hours = h]

\* C24: the battery is sized for min(4, backup_duration_hours) hours, and
\* two valid inputs that differ only in backup_duration_hours, both values
\* at least 4 hours, get the same /analyze response in every field.
C24_DurationAboveFourIrrelevant ==
    (pc = "respond" /\ facility.backup_duration_hours >= 40) =>
        /\ (design # None /\ facility.include_battery) =>
               2 * Abs(design.battery_kwh * battery_round_trip_efficiency
                       - load_analysis.backup_load_kw * 40)
                   <= battery_round_trip_efficiency
        /\ \A h \in BackupDurations :
               h >= 40 =>
                   RunAlone(WithBackupDuration(facility, h)) = response

\* C24 witness: a full result with a battery for a 24 hour request; the
\* same facility asking for 2 hours gets another result
C24_Witness ==
    /\ pc = "respond"
    /\ response.status = 200
    /\ facility.backup_duration_hours = 240
    /\ design.battery_kwh > 0
    /\ RunAlone(WithBackupDuration(facility, 40)) = response
    /\ RunAlone(WithBackupDuration(facility, 20)) # response

\* C25: with include_battery false the design has no battery, the TOU
\* arbitrage savings and the demand-charge savings are 0, and the reported
\* annual_savings is the solar self-consumption savings plus the export
\* savings.
C25_NoBatterySavings ==
    (financial # None /\ ~facility.include_battery) =>
        /\ design.battery_kw = 0
        /\ design.battery_kwh = 0
        /\ calculate_arbitrage_savings(design) = 0
        /\ calculate_demand_charge_savings(design) = 0
        /\ financial.annual_savings
               = Round(self_consumption_savings(design)
                       + export_savings(design), 10)

\* C25 witness: a solar and generator design without battery whose
\* annual savings are positive
C25_Witness ==
    /\ financial # None
    /\ ~facility.include_battery
    /\ design.solar_pv_kw > 0
    /\ design.generator_kw > 0
    /\ financial.annual_savings > 0

\* the position of each kind of string in the fixed order
RecommendationOrder ==
    <<"solar", "battery", "generator", "payback", "npv", "reliability",
      "avoided_outage", "grid_forming">>

RankOf(kind) ==
    CHOOSE i \in 1..Len(RecommendationOrder) : RecommendationOrder[i] = kind

HasRecommendation(kind) ==
    \E i \in 1..Len(recommendations) : recommendations[i].kind = kind

\* C26: the list generate_recommendations returns is in the fixed order
\* solar, battery, generator, payback, NPV, reliability improvement,
\* avoided outage cost, grid-forming note; no string appears twice; the
\* payback, NPV, reliability and avoided-cost strings appear only when
\* payback < 10, NPV > 0, improvement > 90 and avoided cost > 10000; the
\* grid-forming note is always the last element, so the list is not
\* empty.
C26_RecommendationOrder ==
    (pc = "respond" /\ response.status = 200) =>
        /\ recommendations = response.recommendations
        /\ \A i, j \in 1..Len(recommendations) :
               i < j => RankOf(recommendations[i].kind)
                            < RankOf(recommendations[j].kind)
        /\ HasRecommendation("payback") =>
               financial.simple_payback_years < 100
        /\ HasRecommendation("npv") => financial.npv > 0
        /\ HasRecommendation("reliability") =>
               reliability.reliability_improvement_percent > 900
        /\ HasRecommendation("avoided_outage") =>
               reliability.avoided_outage_cost > 1000000
        /\ Len(recommendations) >= 1
        /\ recommendations[Len(recommendations)].kind = "grid_forming"

\* C26 witness: a battery-only hospital design whose list holds the
\* battery, payback, NPV and avoided-cost strings and the closing note
C26_Witness ==
    /\ pc = "respond"
    /\ response.status = 200
    /\ Len(recommendations) = 5
    /\ recommendations[1].kind = "battery"
    /\ recommendations[2].kind = "payback"
    /\ recommendations[3].kind = "npv"
    /\ recommendations[4].kind = "avoided_outage"
    /\ recommendations[5].kind = "grid_forming"

\* C27: net_cost_after_incentives is at least the 350 dollars of
\* interconnection and average permit fees, the ITC being 30 % of the
\* solar and battery cost only and so never above the capital cost;
\* simple_payback_years is strictly positive and net_cost > 0, so the IRR
\* is never the fallback of its guard.
C27_NetCostPositive ==
    financial # None =>
        /\ financial.federal_itc <= costs.total_capital_cost
        /\ net_cost(costs) > 0
        /\ financial.net_cost_after_incentives
               >= 100 * (interconnection_fee_commercial
                         + (permit_fee_min + permit_fee_max) \div 2)
        /\ financial.net_cost_after_incentives >= 35000
        /\ financial.simple_payback_years > 0

\* C27 witness: a design with no component and no cost, whose net cost is
\* the fees alone, next to the payback sentinel
C27_Witness ==
    /\ financial # None
    /\ costs.total_capital_cost = 0
    /\ financial.federal_itc = 0
    /\ financial.net_cost_after_incentives = 35000
    /\ financial.simple_payback_years = 9990

\* C28: reliability_improvement_percent is 95.0 exactly when the design
\* has a generator (generator_kw > 0); without one the battery hours stay
\* below the expected outage hours (652.5 / 60) and the improvement below
\* 95; in a result the reliability-improvement string is present if and
\* only if the design has a generator.
C28_GeneratorDecidesImprovement ==
    reliability # None =>
        LET total == total_backup_hours(design, load_analysis)
        IN /\ reliability.reliability_improvement_percent = 950
                  <=> design.generator_kw > 0
           /\ design.generator_kw = 0 =>
                  /\ total.num * expected_outage_den
                         < expected_outage_num * total.den
                  /\ reliability.reliability_improvement_percent < 950
           /\ (pc = "respond" /\ response.status = 200) =>
                  (HasRecommendation("reliability")
                       <=> design.generator_kw > 0)

\* C28 witness: a result for a design with a 4 hour battery and no
\* generator: an improvement above 40 % and no reliability string
C28_Witness ==
    /\ pc = "respond"
    /\ response.status = 200
    /\ design.generator_kw = 0
    /\ design.battery_kwh > 0
    /\ reliability.reliability_improvement_percent > 400
    /\ reliability.reliability_improvement_percent < 950
    /\ ~HasRecommendation("reliability")

\* C29: whenever net_annual_savings <= 0 the reported npv is strictly
\* negative, irr is <= 0 and simple_payback_years is the 999 sentinel, and
\* the result holds neither the payback string nor the positive-NPV
\* string.
C29_NoSavingsNoPraise ==
    (financial # None /\ net_annual_savings(design, costs) <= 0) =>
        /\ financial.npv < 0
        /\ financial.irr <= 0
        /\ financial.simple_payback_years = 9990
        /\ (pc = "respond" /\ response.status = 200) =>
               /\ ~HasRecommendation("payback")
               /\ ~HasRecommendation("npv")

\* C29 witness: a result for a generator-only design, whose O&M cost
\* makes the net annual savings negative
C29_Witness ==
    /\ pc = "respond"
    /\ response.status = 200
    /\ design.generator_kw > 0
    /\ design.solar_pv_kw = 0
    /\ design.battery_kwh = 0
    /\ net_annual_savings(design, costs) < 0
    /\ financial.irr < 0
    /\ financial.npv < -35000
    /\ financial.simple_payback_years = 9990

\* reference tables with other contents than the ones the process read
OtherTables ==
    [name \in {"component_costs", "financial_params"} |->
        IF name = "component_costs"
        THEN <<[Component |-> "Solar PV", Unit_Cost |-> 3000],
               [Component |-> "Generator", Unit_Cost |-> 1]>>
        ELSE <<[Parameter |-> "federal_itc", Value |-> 0],
               [Parameter |-> "discount_rate", Value |-> 12]>>]

\* the response of a process whose DATA is D to a request for facility f
ResponseWith(f, D) == RunToEnd(NewAnalyze(f, D), D, Len(Stages)).response

====
